---- MODULE Spec2Model ----
(***************************************************************************)
(* Model of Deque<_Ty> (src/Deque.h): a map of fixed-size blocks with a    *)
(* start and a finish cursor.  A deque object is a record holding the      *)
(* private fields of the class; every member function is an operator from  *)
(* a record to the record the call leaves behind.  The field ub is set     *)
(* when the call performs an operation whose behaviour C++ leaves          *)
(* undefined (a write or read through a null block or a null map, an       *)
(* index outside the map array): from then on the object stands for every  *)
(* outcome the build can produce and no further call is modelled on it.    *)
(***************************************************************************)
EXTENDS Integers, Sequences, FiniteSets, TLC

\* ---- program constants
BLOCK_SIZE == 64
MIN_MAP_SIZE == 8

\* ---- bounds of the model
\* pushes are offered while size() < MaxSize
MaxSize == 3
\* a push that would grow the map beyond MaxMapSize slots is not offered
MaxMapSize == 16
\* calls made in a run of the two-object specification
MaxPairSteps == 4
\* SpecGrow offers pushes while size() < MaxGrow
MaxGrow == 260
\* SpecIter: iterators start in blocks 0..MaxIterBlock and move by
\* k * BLOCK_SIZE + r with |k| <= MaxJump and |r| <= MaxStep
MaxIterBlock == 2
MaxJump == 1
MaxStep == 2
\* clear() is offered while the object has allocated fewer than MaxMaps
\* map arrays
MaxMaps == 3

\* element values; the container only copies elements, never inspects them
Values == {1, 2}

\* the two objects of the model
Ids == {1, 2}

\* a slot of a block that holds no constructed element
Raw == 0
\* a map slot that owns no block (nullptr)
NullBlock == <<>>
\* BLOCK_SIZE slots of uninitialized storage
FreshBlock == [j \in 0..(BLOCK_SIZE - 1) |-> Raw]

Max(a, b) == IF a >= b THEN a ELSE b

\* ---- size_type and difference_type arithmetic
\* Both types are as wide as each other; size_type arithmetic is modulo
\* SizeMod and difference_type is its two's-complement reading.  The model
\* keeps the word at 30 bits (the build has 64): BLOCK_SIZE divides SizeMod
\* in both, so a negative x converted to size_type and divided by
\* BLOCK_SIZE is SizeMod / BLOCK_SIZE + floor(x / BLOCK_SIZE) in both.
SizeMod == 2 ^ 30

\* conversion to size_type
to_size(x) == x % SizeMod

\* conversion to difference_type
to_diff(x) ==
    LET u == x % SizeMod
    IN  IF u >= SizeMod \div 2 THEN u - SizeMod ELSE u

VARIABLES
    deq,      \* deq[k]: the fields of object k
    abs,      \* abs[k]: the front-to-back list the same calls leave in a plain list
    thrown,   \* the last call ended by throwing std::out_of_range
    budget,   \* calls left in a run of the two-object specification
    iter,     \* an iterator held by the calling program
    ret       \* <<>>, or what the last call returned when that is recorded

vars == <<deq, abs, thrown, budget, iter, ret>>

\* ---- helpers on the map of an object q

InMap(q, i) == i >= 0 /\ i < q.map_size

HasBlock(q, i) == InMap(q, i) /\ q.map[i] # NullBlock

Undefined(q) == [q EXCEPT !.ub = TRUE]

\* the address ::operator new returns for a map array: one no other map
\* array of the run has had (0 is nullptr)
NullMap == 0
fresh_map(q) == (q.allocs + 1) * Cardinality(Ids) + q.this

\* _map[block] + offset names a slot of allocated storage
block_pointer_ok(q, block, offset) ==
    HasBlock(q, block) /\ offset >= 0 /\ offset < BLOCK_SIZE

\* ::new (_map[b] + o) value_type(v)
construct_at(q, b, o, v) ==
    IF q.ub \/ ~block_pointer_ok(q, b, o) THEN Undefined(q)
    ELSE [q EXCEPT !.map[b][o] = v]

\* std::destroy_at(block_pointer(b, o))
destroy_at(q, b, o) ==
    IF q.ub \/ ~block_pointer_ok(q, b, o) THEN Undefined(q)
    ELSE [q EXCEPT !.map[b][o] = Raw]

\* the element read at _map[b][o]; Raw when the slot holds no element or
\* the read is outside allocated storage
read_at(q, b, o) ==
    IF block_pointer_ok(q, b, o) THEN q.map[b][o] ELSE Raw

\* ---- Map and Block lifecycle

allocate_map(q, n_blocks) ==
    LET n == IF n_blocks < MIN_MAP_SIZE THEN MIN_MAP_SIZE ELSE n_blocks
    IN  [q EXCEPT !.map = [i \in 0..(n - 1) |-> NullBlock], !.map_size = n,
                  !.map_ptr = fresh_map(q), !.allocs = q.allocs + 1]

\* reallocate_map whose copy loop of line 244 stops one slot early
reallocate_map_DropsLast(q, add_to_front) ==
    LET old_block_count == q.finish_block - q.start_block + 1
        new_map_size == Max(MIN_MAP_SIZE, q.map_size * 2)
        new_start_block == IF add_to_front THEN new_map_size \div 4
                           ELSE (new_map_size \div 2) - (old_block_count \div 2)
        copied(i) == i >= new_start_block /\ i < new_start_block + old_block_count - 1
        src(i) == q.start_block + (i - new_start_block)
    IN  IF q.ub
           \/ old_block_count < 0
           \/ \E i \in 0..(old_block_count - 1) :
                 ~InMap(q, q.start_block + i) \/ new_start_block + i >= new_map_size
        THEN Undefined(q)
        ELSE [q EXCEPT
                !.map = [i \in 0..(new_map_size - 1) |->
                            IF copied(i) THEN q.map[src(i)] ELSE NullBlock],
                !.start_block = new_start_block,
                !.finish_block = new_start_block + old_block_count - 1,
                !.map_size = new_map_size,
                !.map_ptr = fresh_map(q), !.allocs = q.allocs + 1,
                !.deleted = q.deleted + 1]

\* reallocate_map growing the map array where it is: _map keeps its address
reallocate_map_InPlace(q, add_to_front) ==
    LET old_block_count == q.finish_block - q.start_block + 1
        new_map_size == Max(MIN_MAP_SIZE, q.map_size * 2)
        new_start_block == IF add_to_front THEN new_map_size \div 4
                           ELSE (new_map_size \div 2) - (old_block_count \div 2)
        copied(i) == i >= new_start_block /\ i < new_start_block + old_block_count
        src(i) == q.start_block + (i - new_start_block)
    IN  IF q.ub
           \/ old_block_count < 0
           \/ \E i \in 0..(old_block_count - 1) :
                 ~InMap(q, q.start_block + i) \/ new_start_block + i >= new_map_size
        THEN Undefined(q)
        ELSE [q EXCEPT
                !.map = [i \in 0..(new_map_size - 1) |->
                            IF copied(i) THEN q.map[src(i)] ELSE NullBlock],
                !.start_block = new_start_block,
                !.finish_block = new_start_block + old_block_count - 1,
                !.map_size = new_map_size,
                !.deleted = q.deleted + 1]

reallocate_map(q, add_to_front) ==
    LET old_block_count == q.finish_block - q.start_block + 1
        new_map_size == Max(MIN_MAP_SIZE, q.map_size * 2)
        new_start_block == IF add_to_front THEN new_map_size \div 4
                           ELSE (new_map_size \div 2) - (old_block_count \div 2)
        copied(i) == i >= new_start_block /\ i < new_start_block + old_block_count
        src(i) == q.start_block + (i - new_start_block)
    IN  IF q.ub
           \/ old_block_count < 0
           \/ \E i \in 0..(old_block_count - 1) :
                 ~InMap(q, q.start_block + i) \/ new_start_block + i >= new_map_size
        THEN Undefined(q)
        ELSE [q EXCEPT
                !.map = [i \in 0..(new_map_size - 1) |->
                            IF copied(i) THEN q.map[src(i)] ELSE NullBlock],
                !.start_block = new_start_block,
                !.finish_block = new_start_block + old_block_count - 1,
                !.map_size = new_map_size,
                !.map_ptr = fresh_map(q), !.allocs = q.allocs + 1,
                !.deleted = q.deleted + 1]

allocate_block(q, index) ==
    IF q.ub \/ ~InMap(q, index) THEN Undefined(q)
    ELSE [q EXCEPT !.map[index] = FreshBlock]

\* deallocate_block that leaves the block in its slot
deallocate_block_Keeps(q, index) ==
    IF q.ub \/ ~InMap(q, index) THEN Undefined(q)
    ELSE q

deallocate_block(q, index) ==
    IF q.ub \/ ~InMap(q, index) THEN Undefined(q)
    ELSE [q EXCEPT !.map[index] = NullBlock]

\* ---- construction

\* the fields before the constructor body runs
\* (this: the object's own address; allocs: map arrays it has allocated
\* with ::operator new; deleted: map arrays it has passed to
\* ::operator delete)
Unconstructed(k) ==
    [this |-> k, allocs |-> 0, deleted |-> 0,
     map_ptr |-> NullMap, map |-> <<>>, map_size |-> 0, size |-> 0,
     start_block |-> 0, start_offset |-> 0,
     finish_block |-> 0, finish_offset |-> 0, ub |-> FALSE]

\* Deque(), run on the unconstructed fields u
Deque_ctor(u) ==
    LET q1 == allocate_map(u, 8)
        q2 == [q1 EXCEPT !.start_block = q1.map_size \div 2,
                         !.start_offset = 0,
                         !.finish_block = q1.map_size \div 2,
                         !.finish_offset = 0,
                         !.size = 0]
    IN  allocate_block(q2, q2.start_block)

\* object k, default-constructed
Deque_default(k) == Deque_ctor(Unconstructed(k))

\* the unconstructed fields of an object built where the object prev was
Reborn(prev) ==
    [Unconstructed(prev.this) EXCEPT !.allocs = prev.allocs,
                                     !.deleted = prev.deleted]

\* ---- capacity queries

size(q) == q.size

empty(q) == q.size = 0

capacity(q) == q.map_size * BLOCK_SIZE

\* ---- mutators at the two ends

push_back(q, value) ==
    LET q1 == IF q.finish_offset = BLOCK_SIZE
              THEN LET a == IF q.finish_block + 1 >= q.map_size
                            THEN reallocate_map(q, FALSE) ELSE q
                       b == IF a.ub \/ ~InMap(a, a.finish_block + 1) THEN Undefined(a)
                            ELSE IF a.map[a.finish_block + 1] = NullBlock
                                 THEN allocate_block(a, a.finish_block + 1)
                                 ELSE a
                   IN  [b EXCEPT !.finish_block = b.finish_block + 1,
                                 !.finish_offset = 0]
              ELSE q
        q2 == construct_at(q1, q1.finish_block, q1.finish_offset, value)
    IN  [q2 EXCEPT !.finish_offset = q2.finish_offset + 1,
                   !.size = q2.size + 1]

\* push_front with the ++_size of line 468 left out
push_front_NoCount(q, value) ==
    LET q1 == IF q.start_offset = 0
              THEN LET a == IF q.start_block = 0
                            THEN reallocate_map(q, TRUE) ELSE q
                       b == IF a.ub \/ ~InMap(a, a.start_block - 1) THEN Undefined(a)
                            ELSE IF a.map[a.start_block - 1] = NullBlock
                                 THEN allocate_block(a, a.start_block - 1)
                                 ELSE a
                   IN  [b EXCEPT !.start_block = b.start_block - 1,
                                 !.start_offset = BLOCK_SIZE]
              ELSE q
        q2 == [q1 EXCEPT !.start_offset = q1.start_offset - 1]
    IN  construct_at(q2, q2.start_block, q2.start_offset, value)

push_front(q, value) ==
    LET q1 == IF q.start_offset = 0
              THEN LET a == IF q.start_block = 0
                            THEN reallocate_map(q, TRUE) ELSE q
                       b == IF a.ub \/ ~InMap(a, a.start_block - 1) THEN Undefined(a)
                            ELSE IF a.map[a.start_block - 1] = NullBlock
                                 THEN allocate_block(a, a.start_block - 1)
                                 ELSE a
                   IN  [b EXCEPT !.start_block = b.start_block - 1,
                                 !.start_offset = BLOCK_SIZE]
              ELSE q
        q2 == [q1 EXCEPT !.start_offset = q1.start_offset - 1]
        q3 == construct_at(q2, q2.start_block, q2.start_offset, value)
    IN  [q3 EXCEPT !.size = q3.size + 1]

\* pop_back and pop_front throw std::out_of_range before touching anything
pop_throws(q) == empty(q)

\* pop_back with the _finish_block-- of line 480 left out
pop_back_NoStepBack(q) ==
    IF pop_throws(q) THEN q
    ELSE LET q1 == IF q.finish_offset = 0
                   THEN [q EXCEPT !.finish_offset = BLOCK_SIZE - 1]
                   ELSE [q EXCEPT !.finish_offset = q.finish_offset - 1]
             q2 == destroy_at(q1, q1.finish_block, q1.finish_offset)
         IN  [q2 EXCEPT !.size = q2.size - 1]

pop_back(q) ==
    IF pop_throws(q) THEN q
    ELSE LET q1 == IF q.finish_offset = 0
                   THEN [q EXCEPT !.finish_block = q.finish_block - 1,
                                  !.finish_offset = BLOCK_SIZE - 1]
                   ELSE [q EXCEPT !.finish_offset = q.finish_offset - 1]
             q2 == destroy_at(q1, q1.finish_block, q1.finish_offset)
         IN  [q2 EXCEPT !.size = q2.size - 1]

\* pop_front with the ++_start_block of line 501 left out
pop_front_NoAdvance(q) ==
    IF pop_throws(q) THEN q
    ELSE LET q1 == destroy_at(q, q.start_block, q.start_offset)
             q2 == IF q1.start_offset + 1 = BLOCK_SIZE
                   THEN LET a == deallocate_block(q1, q1.start_block)
                        IN  [a EXCEPT !.start_offset = 0]
                   ELSE [q1 EXCEPT !.start_offset = q1.start_offset + 1]
         IN  [q2 EXCEPT !.size = q2.size - 1]

pop_front(q) ==
    IF pop_throws(q) THEN q
    ELSE LET q1 == destroy_at(q, q.start_block, q.start_offset)
             q2 == IF q1.start_offset + 1 = BLOCK_SIZE
                   THEN LET a == deallocate_block(q1, q1.start_block)
                        IN  [a EXCEPT !.start_block = a.start_block + 1,
                                      !.start_offset = 0]
                   ELSE [q1 EXCEPT !.start_offset = q1.start_offset + 1]
         IN  [q2 EXCEPT !.size = q2.size - 1]

\* ---- element access

front(q) == read_at(q, q.start_block, q.start_offset)

back(q) ==
    LET ob == IF q.finish_offset = 0 THEN q.finish_block - 1 ELSE q.finish_block
        oo == IF q.finish_offset = 0 THEN BLOCK_SIZE - 1 ELSE q.finish_offset - 1
    IN  read_at(q, ob, oo)

\* operator[] with the block taken from index alone, not from
\* _start_offset + index
subscript_NoCarry(q, index) ==
    LET offset == q.start_offset + index
        block == q.start_block + (index \div BLOCK_SIZE)
        block_offset == offset % BLOCK_SIZE
    IN  read_at(q, block, block_offset)

\* operator[](index)
subscript(q, index) ==
    LET offset == q.start_offset + index
        block == q.start_block + (offset \div BLOCK_SIZE)
        block_offset == offset % BLOCK_SIZE
    IN  read_at(q, block, block_offset)

\* at() with > for >= in the test of line 659
at_throws_OffByOne(q, index) == index > q.size

at_throws(q, index) == index >= q.size

at(q, index) == subscript(q, index)

\* ---- Iterator: (map, block, offset)

Iterator(map, block, offset) ==
    [map_ptr |-> map, block |-> block, offset |-> offset]

begin(q) == Iterator(q.map_ptr, q.start_block, q.start_offset)

end(q) == Iterator(q.map_ptr, q.finish_block, q.finish_offset)

\* operator*: _map_ptr[_block][_offset], read through the map the iterator
\* was made from; Raw when that is not storage holding an element of q
Iterator_deref(q, it) ==
    IF it.map_ptr = q.map_ptr /\ it.map_ptr # NullMap
    THEN read_at(q, it.block, it.offset) ELSE Raw

\* the subscript operator of an element, applied by Const_Iterator's
\* operator* and by both operator->: the elements of the model are scalars
\* and have none, so the expression names no element (for a scalar _Ty it
\* does not compile)
element_subscript(elem, n) == Raw

\* operator->: &((*_map_ptr)[_block][_offset]), the element it points to.
\* *_map_ptr is the block of map slot 0, [_block] the element at slot
\* _block of that block, and [_offset] a subscript applied to that element
Iterator_arrow(q, it) ==
    LET first == IF it.map_ptr = q.map_ptr /\ InMap(q, 0) THEN q.map[0] ELSE NullBlock
        elem == IF first # NullBlock /\ it.block >= 0 /\ it.block < BLOCK_SIZE
                THEN first[it.block] ELSE Raw
    IN  element_subscript(elem, it.offset)

\* operator++
Iterator_inc(it) ==
    IF it.offset + 1 = BLOCK_SIZE
    THEN [it EXCEPT !.block = to_size(it.block + 1), !.offset = 0]
    ELSE [it EXCEPT !.offset = it.offset + 1]

\* operator--
Iterator_dec(it) ==
    IF it.offset = 0
    THEN [it EXCEPT !.block = to_size(it.block - 1), !.offset = BLOCK_SIZE - 1]
    ELSE [it EXCEPT !.offset = it.offset - 1]

\* operator+(difference_type n): offset is signed, block and off are
\* size_type, and BLOCK_SIZE is a size_t, so offset / BLOCK_SIZE and
\* offset % BLOCK_SIZE are computed on offset converted to size_type
Iterator_add(it, n) ==
    LET offset == to_diff(it.offset + n)
        block == to_size(it.block + (to_size(offset) \div BLOCK_SIZE))
        off == to_size(offset) % BLOCK_SIZE
    IN  IF off < 0
        THEN Iterator(it.map_ptr, to_size(block - 1), to_size(off + BLOCK_SIZE))
        ELSE Iterator(it.map_ptr, block, off)

\* operator-(difference_type n)
Iterator_sub(it, n) == Iterator_add(it, to_diff(-n))

\* operator-(const Iterator& rhs); the block difference is reduced modulo
\* SizeMod / BLOCK_SIZE before it is multiplied, which leaves the product
\* modulo SizeMod as it is
Iterator_diff(a, b) ==
    LET block_diff == (a.block - b.block) % (SizeMod \div BLOCK_SIZE)
        offset_diff == a.offset - b.offset
    IN  to_diff(block_diff * BLOCK_SIZE + offset_diff)

\* operator==
Iterator_eq(a, b) ==
    a.map_ptr = b.map_ptr /\ a.block = b.block /\ a.offset = b.offset

\* operator!=
Iterator_ne(a, b) == ~Iterator_eq(a, b)

\* operator<
Iterator_lt(a, b) ==
    /\ a.map_ptr = b.map_ptr
    /\ (a.block < b.block \/ (a.block = b.block /\ a.offset < b.offset))

\* operator>
Iterator_gt(a, b) == Iterator_lt(b, a)

\* operator<=
Iterator_le(a, b) == ~Iterator_lt(b, a)

\* operator>=
Iterator_ge(a, b) == ~Iterator_lt(a, b)

\* ---- Const_Iterator

Const_Iterator(map, block, offset) ==
    [map_ptr |-> map, block |-> block, offset |-> offset]

\* begin() const, end() const
cbegin(q) == Const_Iterator(q.map_ptr, q.start_block, q.start_offset)

cend(q) == Const_Iterator(q.map_ptr, q.finish_block, q.finish_offset)

\* operator*: (*_map_ptr)[_block][_offset].  *_map_ptr is the block of
\* map slot 0, [_block] the element at slot _block of that block, and
\* [_offset] a subscript applied to that element
Const_Iterator_deref(q, it) ==
    LET first == IF it.map_ptr = q.map_ptr /\ InMap(q, 0) THEN q.map[0] ELSE NullBlock
        elem == IF first # NullBlock /\ it.block >= 0 /\ it.block < BLOCK_SIZE
                THEN first[it.block] ELSE Raw
    IN  element_subscript(elem, it.offset)

\* operator->: &((*_map_ptr)[_block][_offset]), the element it points to
Const_Iterator_arrow(q, it) ==
    LET first == IF it.map_ptr = q.map_ptr /\ InMap(q, 0) THEN q.map[0] ELSE NullBlock
        elem == IF first # NullBlock /\ it.block >= 0 /\ it.block < BLOCK_SIZE
                THEN first[it.block] ELSE Raw
    IN  element_subscript(elem, it.offset)

\* operator++
Const_Iterator_inc(it) ==
    IF it.offset + 1 >= BLOCK_SIZE
    THEN [it EXCEPT !.block = to_size(it.block + 1), !.offset = 0]
    ELSE [it EXCEPT !.offset = it.offset + 1]

\* operator--
Const_Iterator_dec(it) ==
    IF it.offset = 0
    THEN [it EXCEPT !.block = to_size(it.block - 1), !.offset = BLOCK_SIZE - 1]
    ELSE [it EXCEPT !.offset = it.offset - 1]

\* operator+(difference_type n)
Const_Iterator_add(it, n) ==
    LET offset == to_diff(it.offset + n)
        block == to_size(it.block + (to_size(offset) \div BLOCK_SIZE))
        off == to_size(offset) % BLOCK_SIZE
    IN  IF off < 0
        THEN Const_Iterator(it.map_ptr, to_size(block - 1), to_size(off + BLOCK_SIZE))
        ELSE Const_Iterator(it.map_ptr, block, off)

\* operator-(difference_type n)
Const_Iterator_sub(it, n) == Const_Iterator_add(it, to_diff(-n))

\* operator==
Const_Iterator_eq(a, b) ==
    a.map_ptr = b.map_ptr /\ a.block = b.block /\ a.offset = b.offset

\* operator!=
Const_Iterator_ne(a, b) == ~Const_Iterator_eq(a, b)

\* operator<
Const_Iterator_lt(a, b) ==
    /\ a.map_ptr = b.map_ptr
    /\ (a.block < b.block \/ (a.block = b.block /\ a.offset < b.offset))

\* operator>
Const_Iterator_gt(a, b) == Const_Iterator_lt(b, a)

\* operator<=: !(*this > rhs)
Const_Iterator_le(a, b) == ~Const_Iterator_gt(a, b)

\* operator>=
Const_Iterator_ge(a, b) == ~Const_Iterator_lt(a, b)

\* ---- destruction, clear, copy and move

destroy_all(q) ==
    IF q.ub THEN q
    ELSE [q EXCEPT !.map = <<>>, !.map_ptr = NullMap, !.map_size = 0,
                   !.start_block = 0, !.start_offset = 0,
                   !.finish_block = 0, !.finish_offset = 0,
                   !.deleted = IF q.map_ptr # NullMap THEN q.deleted + 1
                               ELSE q.deleted]

\* the slot the destroy loop of clear() visits in its i-th round
clear_slot(q, i) ==
    [block |-> q.start_block + ((q.start_offset + i) \div BLOCK_SIZE),
     offset |-> (q.start_offset + i) % BLOCK_SIZE]

clear(q) ==
    IF q.ub \/ empty(q) THEN q
    ELSE IF \E i \in 0..(q.size - 1) :
               ~block_pointer_ok(q, clear_slot(q, i).block, clear_slot(q, i).offset)
         THEN Undefined(q)
         ELSE LET center == q.map_size \div 2
                  q1 == allocate_map(q, center)
              IN  [q1 EXCEPT !.start_block = center, !.finish_block = center,
                             !.start_offset = 0, !.finish_offset = 0,
                             !.size = 0]

\* the loop of assign(count, value): push_back(value) for i < count
RECURSIVE assign_fill(_, _, _, _)
assign_fill(q, i, count, value) ==
    IF q.ub \/ i >= count THEN q
    ELSE assign_fill(push_back(q, value), i + 1, count, value)

\* assign(count, value)
assign(q, count, value) == assign_fill(clear(q), 0, count, value)

\* a range-for over a const deque: *it is pushed onto c until it == last.
\* A read that names no element, or a walk that leaves the map, is
\* undefined.
RECURSIVE copy_range(_, _, _, _)
copy_range(c, other, it, last) ==
    IF c.ub \/ Const_Iterator_eq(it, last) THEN c
    ELSE LET elem == Const_Iterator_deref(other, it)
         IN  IF elem = Raw \/ ~InMap(other, it.block) THEN Undefined(c)
             ELSE copy_range(push_back(c, elem), other, Const_Iterator_inc(it), last)

\* Deque(const Deque& other), built where the object prev was
copy_construct(prev, other) ==
    copy_range(Deque_ctor(Reborn(prev)), other, cbegin(other), cend(other))

\* the loop of operator=(const Deque&): push_back(other[i]) for i < n
RECURSIVE copy_indexed(_, _, _, _)
copy_indexed(c, other, i, n) ==
    IF c.ub \/ i >= n THEN c
    ELSE copy_indexed(push_back(c, subscript(other, i)), other, i + 1, n)

\* operator=(const Deque& other)
copy_assign(q, other) ==
    IF q.this = other.this THEN q
    ELSE LET q1 == destroy_all(q)
             q2 == allocate_map(q1, other.map_size)
         IN  copy_indexed(q2, other, 0, other.size)

\* the source of a move constructor: every field but _size is zeroed
moved_from_construct(other) ==
    [other EXCEPT !.map = <<>>, !.map_ptr = NullMap, !.map_size = 0,
                  !.start_block = 0, !.start_offset = 0,
                  !.finish_block = 0, !.finish_offset = 0]

\* Deque(Deque&& other), built where the object prev was: _size is not
\* initialized and holds the indeterminate value garbage
move_construct(prev, other, garbage) ==
    [other EXCEPT !.this = prev.this, !.allocs = prev.allocs,
                  !.deleted = prev.deleted,
                  !.size = garbage]

\* the source of a move assignment
moved_from_assign(other) ==
    [moved_from_construct(other) EXCEPT !.size = 0]

\* operator=(Deque&& other), what is left in *this
move_assign(q, other) ==
    IF q.this = other.this THEN q
    ELSE LET q1 == destroy_all(clear(q))
         IN  IF q1.ub THEN q1
             ELSE [other EXCEPT !.this = q1.this, !.allocs = q1.allocs,
                                !.deleted = q1.deleted]

\* ---- equality

\* std::equal(begin(), end(), other.begin()): "true", "false", or
\* "undefined" when a read names no element or the walk leaves the map
RECURSIVE equal_range(_, _, _, _)
equal_range(a, b, first1, first2) ==
    IF Const_Iterator_eq(first1, cend(a)) THEN "true"
    ELSE LET x == Const_Iterator_deref(a, first1)
             y == Const_Iterator_deref(b, first2)
         IN  IF x = Raw \/ y = Raw \/ ~InMap(a, first1.block) THEN "undefined"
             ELSE IF x # y THEN "false"
             ELSE equal_range(a, b, Const_Iterator_inc(first1), Const_Iterator_inc(first2))

\* operator==
deque_eq(a, b) ==
    IF a.size # b.size THEN "false" ELSE equal_range(a, b, cbegin(a), cbegin(b))

\* operator!=
deque_ne(a, b) ==
    LET r == deque_eq(a, b)
    IN  IF r = "true" THEN "false" ELSE IF r = "false" THEN "true" ELSE r

\* ---- emplace at the ends, resize, insert, erase

emplace_back(q, value) ==
    LET q1 == IF q.finish_offset = BLOCK_SIZE
              THEN LET a == IF q.finish_block + 1 >= q.map_size
                            THEN reallocate_map(q, FALSE) ELSE q
                       b == IF a.ub \/ ~InMap(a, a.finish_block + 1) THEN Undefined(a)
                            ELSE IF a.map[a.finish_block + 1] = NullBlock
                                 THEN allocate_block(a, a.finish_block + 1)
                                 ELSE a
                   IN  [b EXCEPT !.finish_block = b.finish_block + 1,
                                 !.finish_offset = 0]
              ELSE q
        q2 == construct_at(q1, q1.finish_block, q1.finish_offset, value)
        q3 == [q2 EXCEPT !.size = q2.size + 1]
    IN  [q3 EXCEPT !.finish_offset = q3.finish_offset + 1]

emplace_front(q, value) ==
    LET q1 == IF q.start_offset = 0
              THEN LET a == IF q.start_block = 0
                            THEN reallocate_map(q, TRUE) ELSE q
                       b == IF a.ub \/ ~InMap(a, a.start_block - 1) THEN Undefined(a)
                            ELSE IF a.map[a.start_block - 1] = NullBlock
                                 THEN allocate_block(a, a.start_block - 1)
                                 ELSE a
                   IN  [b EXCEPT !.start_block = b.start_block - 1,
                                 !.start_offset = BLOCK_SIZE]
              ELSE q
        q2 == [q1 EXCEPT !.start_offset = q1.start_offset - 1]
        q3 == construct_at(q2, q2.start_block, q2.start_offset, value)
    IN  [q3 EXCEPT !.size = q3.size + 1]

\* the destroy loop of resize without the --block of line 703
RECURSIVE resize_shrink_NoBlockStep(_, _, _, _)
resize_shrink_NoBlockStep(q, to_destroy, block, offset) ==
    IF q.ub \/ to_destroy = 0
    THEN [q EXCEPT !.finish_block = block, !.finish_offset = offset]
    ELSE LET o == (IF offset = 0 THEN BLOCK_SIZE ELSE offset) - 1
         IN  resize_shrink_NoBlockStep(destroy_at(q, block, o), to_destroy - 1, block, o)

\* the destroy loop of a shrinking resize: to_destroy elements are
\* destroyed walking back from (block, offset)
RECURSIVE resize_shrink(_, _, _, _)
resize_shrink(q, to_destroy, block, offset) ==
    IF q.ub \/ to_destroy = 0
    THEN [q EXCEPT !.finish_block = block, !.finish_offset = offset]
    ELSE LET b == IF offset = 0 THEN block - 1 ELSE block
             o == (IF offset = 0 THEN BLOCK_SIZE ELSE offset) - 1
         IN  resize_shrink(destroy_at(q, b, o), to_destroy - 1, b, o)

\* the push_back loop of a growing resize
RECURSIVE resize_grow(_, _, _)
resize_grow(q, new_size, value) ==
    IF q.ub \/ q.size >= new_size THEN q
    ELSE resize_grow(push_back(q, value), new_size, value)

resize(q, new_size, value) ==
    IF new_size < q.size
    THEN LET q1 == resize_shrink(q, q.size - new_size, q.finish_block, q.finish_offset)
         IN  [q1 EXCEPT !.size = new_size]
    ELSE IF new_size > q.size THEN resize_grow(q, new_size, value)
    ELSE q

\* (*this)[index] = value: an assignment to the element operator[] names;
\* undefined when that slot holds no element or value is read from none
assign_subscript(q, index, value) ==
    LET offset == q.start_offset + index
        block == q.start_block + (offset \div BLOCK_SIZE)
        block_offset == offset % BLOCK_SIZE
    IN  IF q.ub \/ value = Raw \/ read_at(q, block, block_offset) = Raw
        THEN Undefined(q)
        ELSE [q EXCEPT !.map[block][block_offset] = value]

\* the loop of insert stopping one element early (i > index + 1)
RECURSIVE insert_shift_StopsEarly(_, _, _)
insert_shift_StopsEarly(q, i, index) ==
    IF q.ub \/ i <= index + 1 THEN q
    ELSE insert_shift_StopsEarly(assign_subscript(q, i, subscript(q, i - 1)), i - 1, index)

\* the loop of insert: (*this)[i] = (*this)[i - 1] for i down to index + 1
RECURSIVE insert_shift(_, _, _)
insert_shift(q, i, index) ==
    IF q.ub \/ i <= index THEN q
    ELSE insert_shift(assign_subscript(q, i, subscript(q, i - 1)), i - 1, index)

\* insert after its push_back(back()): the shift loop and the assignment
\* of value
insert_place(q1, index, value) ==
    assign_subscript(insert_shift(q1, size(q1) - 1, index), index, value)

\* return begin() + index
insert_result(q3, index) ==
    [deque |-> q3, result |-> Iterator_add(begin(q3), index)]

\* return end() - 1
insert_end(q1) == [deque |-> q1, result |-> Iterator_sub(end(q1), 1)]

\* insert with index == pos - begin() computed
insert_index(q, index, value) ==
    IF index = size(q)
    THEN insert_end(push_back(q, value))
    ELSE insert_result(insert_place(IF back(q) = Raw THEN Undefined(q)
                                    ELSE push_back(q, back(q)),
                                    index, value),
                       index)

\* insert(pos, value): the deque it leaves and the iterator it returns
insert(q, pos, value) ==
    insert_index(q, to_size(Iterator_diff(pos, begin(q))), value)

\* erase without its shift loop
erase_shift_NoShift(q, i) == q

\* the loop of erase: (*this)[i] = (*this)[i + 1] for i < size() - 1
RECURSIVE erase_shift(_, _)
erase_shift(q, i) ==
    IF q.ub \/ i >= size(q) - 1 THEN q
    ELSE erase_shift(assign_subscript(q, i, subscript(q, i + 1)), i + 1)

\* erase(pos): the deque it leaves and the iterator it returns.  On an
\* empty deque size() - 1 wraps and the loop leaves the storage.
erase(q, pos) ==
    LET index == to_size(Iterator_diff(pos, begin(q)))
        q1 == IF empty(q) THEN Undefined(q) ELSE erase_shift(q, index)
        q2 == IF q1.ub THEN q1 ELSE pop_back(q1)
    IN  [deque |-> q2, result |-> Iterator_add(begin(q2), index)]

\* ---- positional emplace

\* resize_map: a new map array of new_map_size null slots replaces the old
\* one; no block pointer is carried over
resize_map(q, new_map_size) ==
    [q EXCEPT !.map = [i \in 0..(new_map_size - 1) |-> NullBlock],
              !.map_size = new_map_size,
              !.map_ptr = fresh_map(q), !.allocs = q.allocs + 1,
              !.deleted = q.deleted + 1]

\* (*this)[index] = std::move(value) in the loop of emplace: the slot at
\* index _size is storage holding no element yet, which a scalar element
\* type may be assigned into; undefined when the slot is not allocated
\* storage or value is read from no element
emplace_assign(q, index, value) ==
    LET offset == q.start_offset + index
        block == q.start_block + (offset \div BLOCK_SIZE)
        block_offset == offset % BLOCK_SIZE
    IN  IF q.ub \/ value = Raw \/ ~block_pointer_ok(q, block, block_offset)
        THEN Undefined(q)
        ELSE [q EXCEPT !.map[block][block_offset] = value]

\* the loop of emplace: (*this)[i] = std::move((*this)[i - 1]) for i from
\* _size down to index + 1
RECURSIVE emplace_shift(_, _, _)
emplace_shift(q, i, index) ==
    IF q.ub \/ i <= index THEN q
    ELSE emplace_shift(emplace_assign(q, i, subscript(q, i - 1)), i - 1, index)

\* ptr = &_map[block][offset]; ptr->~_Ty(); new (ptr) value_type(args...);
\* ++_size; return iterator(_map, block, offset)
emplace_place(q2, block, offset, value) ==
    LET q3 == construct_at(destroy_at(q2, block, offset), block, offset, value)
    IN  [deque |-> [q3 EXCEPT !.size = q3.size + 1],
         result |-> Iterator(q3.map_ptr, block, offset)]

\* emplace with index == pos - begin() computed
emplace_index(q, index, value) ==
    emplace_place(emplace_shift(IF size(q) = capacity(q)
                                THEN resize_map(q, q.map_size * 2) ELSE q,
                                size(q), index),
                  index \div BLOCK_SIZE, index % BLOCK_SIZE, value)

\* emplace(pos, value): the deque it leaves and the iterator it returns
emplace(q, pos, value) ==
    emplace_index(q, to_size(Iterator_diff(pos, begin(q))), value)

\* ---- the state machine: objects driven through their public interface

\* a push that would grow the map beyond MaxMapSize is outside the model
GrowsBack(q) == q.finish_offset = BLOCK_SIZE /\ q.finish_block + 1 >= q.map_size
GrowsFront(q) == q.start_offset = 0 /\ q.start_block = 0
WithinMap(q, grows) == grows => q.map_size * 2 <= MaxMapSize

Init ==
    /\ deq = [k \in Ids |-> Deque_default(k)]
    /\ abs = [k \in Ids |-> <<>>]
    /\ thrown = FALSE
    /\ budget = 0
    /\ iter = begin(Deque_default(1))
    /\ ret = <<>>

\* the calls on object k, without the bookkeeping of the run's budget
CallPushBack(k, v) ==
    /\ ~deq[k].ub
    /\ WithinMap(deq[k], GrowsBack(deq[k]))
    /\ deq' = [deq EXCEPT ![k] = push_back(deq[k], v)]
    /\ abs' = [abs EXCEPT ![k] = Append(abs[k], v)]
    /\ thrown' = FALSE

CallPushFront(k, v) ==
    /\ ~deq[k].ub
    /\ WithinMap(deq[k], GrowsFront(deq[k]))
    /\ deq' = [deq EXCEPT ![k] = push_front(deq[k], v)]
    /\ abs' = [abs EXCEPT ![k] = <<v>> \o abs[k]]
    /\ thrown' = FALSE

CallPopBack(k) ==
    /\ ~deq[k].ub
    /\ deq' = [deq EXCEPT ![k] = pop_back(deq[k])]
    /\ thrown' = pop_throws(deq[k])
    /\ abs' = [abs EXCEPT ![k] = IF abs[k] = <<>> THEN <<>>
                                 ELSE SubSeq(abs[k], 1, Len(abs[k]) - 1)]

CallPopFront(k) ==
    /\ ~deq[k].ub
    /\ deq' = [deq EXCEPT ![k] = pop_front(deq[k])]
    /\ thrown' = pop_throws(deq[k])
    /\ abs' = [abs EXCEPT ![k] = IF abs[k] = <<>> THEN <<>> ELSE Tail(abs[k])]

CallAt(k, i) ==
    /\ ~deq[k].ub
    /\ thrown' = at_throws(deq[k], i)
    /\ UNCHANGED <<deq, abs>>

\* a call of a one-object specification whose return value is not recorded
NoReturn == ret' = <<>> /\ UNCHANGED <<budget, iter>>

\* ---- Spec: one object, the four end operations and at(), any values

PushBack ==
    \E v \in Values :
        size(deq[1]) < MaxSize /\ CallPushBack(1, v) /\ NoReturn

PushFront ==
    \E v \in Values :
        size(deq[1]) < MaxSize /\ CallPushFront(1, v) /\ NoReturn

PopBack == CallPopBack(1) /\ NoReturn

PopFront == CallPopFront(1) /\ NoReturn

At == \E i \in 0..(MaxSize + 1) : CallAt(1, i) /\ NoReturn

Next == PushBack \/ PushFront \/ PopBack \/ PopFront \/ At

Spec == Init /\ [][Next]_vars

\* ---- SpecFifo: push_back and pop_front only

NextFifo == PushBack \/ PopFront

SpecFifo == Init /\ [][NextFifo]_vars

\* ---- SpecFrontBack: push_front and pop_back only

NextFrontBack == PushFront \/ PopBack

SpecFrontBack == Init /\ [][NextFrontBack]_vars

\* ---- SpecGrow: one object filled from both ends until the map grows.
\* Every pushed value is new: one more than the back element, one less
\* than the front element.

FirstToken == 2 * MaxGrow

BackToken == IF abs[1] = <<>> THEN FirstToken ELSE abs[1][Len(abs[1])] + 1

FrontToken == IF abs[1] = <<>> THEN FirstToken ELSE abs[1][1] - 1

GrowBack ==
    size(deq[1]) < MaxGrow /\ CallPushBack(1, BackToken) /\ NoReturn

GrowFront ==
    size(deq[1]) < MaxGrow /\ CallPushFront(1, FrontToken) /\ NoReturn

NextGrow == GrowBack \/ GrowFront

SpecGrow == Init /\ [][NextGrow]_vars

\* ---- SpecPair: two objects; MaxPairSteps calls of the end operations,
\* copy and move construction and assignment between them

\* values an uninitialized _size may hold
Garbage == 0..(MaxSize + 1)

InitPair ==
    /\ deq = [k \in Ids |-> Deque_default(k)]
    /\ abs = [k \in Ids |-> <<>>]
    /\ thrown = FALSE
    /\ budget = MaxPairSteps
    /\ iter = begin(Deque_default(1))
    /\ ret = <<>>

Spend == budget > 0 /\ budget' = budget - 1 /\ UNCHANGED <<iter, ret>>

PairPushBack ==
    \E k \in Ids, v \in Values :
        Spend /\ size(deq[k]) < MaxSize /\ CallPushBack(k, v)

PairPushFront ==
    \E k \in Ids, v \in Values :
        Spend /\ size(deq[k]) < MaxSize /\ CallPushFront(k, v)

PairPopBack == \E k \in Ids : Spend /\ CallPopBack(k)

PairPopFront == \E k \in Ids : Spend /\ CallPopFront(k)

CallCopyConstruct(src, dst) ==
    /\ ~deq[src].ub
    /\ deq' = [deq EXCEPT ![dst] = copy_construct(deq[dst], deq[src])]
    /\ abs' = [abs EXCEPT ![dst] = abs[src]]
    /\ thrown' = FALSE

CallCopyAssign(src, dst) ==
    /\ ~deq[src].ub /\ ~deq[dst].ub
    /\ deq' = [deq EXCEPT ![dst] = copy_assign(deq[dst], deq[src])]
    /\ abs' = [abs EXCEPT ![dst] = abs[src]]
    /\ thrown' = FALSE

CallMoveConstruct(src, dst, garbage) ==
    /\ ~deq[src].ub
    /\ deq' = [deq EXCEPT ![dst] = move_construct(deq[dst], deq[src], garbage),
                          ![src] = moved_from_construct(deq[src])]
    /\ abs' = [abs EXCEPT ![dst] = abs[src], ![src] = <<>>]
    /\ thrown' = FALSE

CallMoveAssign(src, dst) ==
    /\ ~deq[src].ub /\ ~deq[dst].ub
    /\ deq' = [deq EXCEPT ![dst] = move_assign(deq[dst], deq[src]),
                          ![src] = moved_from_assign(deq[src])]
    /\ abs' = [abs EXCEPT ![dst] = abs[src], ![src] = <<>>]
    /\ thrown' = FALSE

CopyConstruct ==
    \E src \in Ids, dst \in Ids :
        src # dst /\ Spend /\ CallCopyConstruct(src, dst)

CopyAssign ==
    \E src \in Ids, dst \in Ids :
        src # dst /\ Spend /\ CallCopyAssign(src, dst)

MoveConstruct ==
    \E src \in Ids, dst \in Ids, garbage \in Garbage :
        src # dst /\ Spend /\ CallMoveConstruct(src, dst, garbage)

MoveAssign ==
    \E src \in Ids, dst \in Ids :
        src # dst /\ Spend /\ CallMoveAssign(src, dst)

NextPair ==
    \/ PairPushBack \/ PairPushFront \/ PairPopBack \/ PairPopFront
    \/ CopyConstruct \/ CopyAssign \/ MoveConstruct \/ MoveAssign

SpecPair == InitPair /\ [][NextPair]_vars

\* ---- SpecEdit: one object under push_back, the pops, resize, insert and
\* erase, any values; insert and erase record the iterator they return

\* the call leaves a map within the bound of the model
FitsMap(q) == q.map_size <= MaxMapSize

\* the list l with v put before position i (0-based), and with the
\* element at position i taken out
Inserted(l, i, v) == SubSeq(l, 1, i) \o <<v>> \o SubSeq(l, i + 1, Len(l))

Erased(l, i) == SubSeq(l, 1, i) \o SubSeq(l, i + 2, Len(l))

Resized(l, n, v) ==
    IF n <= Len(l) THEN SubSeq(l, 1, n) ELSE l \o [j \in 1..(n - Len(l)) |-> v]

CallEmplaceBack(k, v) ==
    /\ ~deq[k].ub
    /\ WithinMap(deq[k], GrowsBack(deq[k]))
    /\ deq' = [deq EXCEPT ![k] = emplace_back(deq[k], v)]
    /\ abs' = [abs EXCEPT ![k] = Append(abs[k], v)]
    /\ thrown' = FALSE

CallEmplaceFront(k, v) ==
    /\ ~deq[k].ub
    /\ WithinMap(deq[k], GrowsFront(deq[k]))
    /\ deq' = [deq EXCEPT ![k] = emplace_front(deq[k], v)]
    /\ abs' = [abs EXCEPT ![k] = <<v>> \o abs[k]]
    /\ thrown' = FALSE

CallResize(k, n, v) ==
    /\ ~deq[k].ub
    /\ FitsMap(resize(deq[k], n, v))
    /\ deq' = [deq EXCEPT ![k] = resize(deq[k], n, v)]
    /\ abs' = [abs EXCEPT ![k] = Resized(abs[k], n, v)]
    /\ thrown' = FALSE

\* insert(begin() + i, v) on object k
InsertAt(k, i, v) == insert(deq[k], Iterator_add(begin(deq[k]), i), v)

CallInsert(k, i, v) ==
    /\ ~deq[k].ub
    /\ FitsMap(InsertAt(k, i, v).deque)
    /\ deq' = [deq EXCEPT ![k] = InsertAt(k, i, v).deque]
    /\ abs' = [abs EXCEPT ![k] = Inserted(abs[k], i, v)]
    /\ thrown' = FALSE

\* erase(begin() + i) on object k
EraseAt(k, i) == erase(deq[k], Iterator_add(begin(deq[k]), i))

CallErase(k, i) ==
    /\ ~deq[k].ub
    /\ deq' = [deq EXCEPT ![k] = EraseAt(k, i).deque]
    /\ abs' = [abs EXCEPT ![k] = Erased(abs[k], i)]
    /\ thrown' = FALSE

\* the call returns result, which is recorded
Returns(call, result) ==
    ret' = << [call |-> call, result |-> result] >> /\ UNCHANGED <<budget, iter>>

Resize ==
    \E n \in 0..MaxSize, v \in Values : CallResize(1, n, v) /\ NoReturn

Insert ==
    \E i \in 0..size(deq[1]), v \in Values :
        /\ size(deq[1]) < MaxSize
        /\ CallInsert(1, i, v)
        /\ Returns("insert", InsertAt(1, i, v).result)

Erase ==
    \E i \in 0..(size(deq[1]) - 1) :
        CallErase(1, i) /\ Returns("erase", EraseAt(1, i).result)

NextEdit == PushBack \/ PopBack \/ PopFront \/ Resize \/ Insert \/ Erase

SpecEdit == Init /\ [][NextEdit]_vars

\* ---- SpecCursor: one object under every mutator but clear and positional
\* emplace, all elements of one value

Fill == CHOOSE v \in Values : TRUE

FillPushBack == size(deq[1]) < MaxSize /\ CallPushBack(1, Fill) /\ NoReturn

FillPushFront == size(deq[1]) < MaxSize /\ CallPushFront(1, Fill) /\ NoReturn

FillEmplaceBack == size(deq[1]) < MaxSize /\ CallEmplaceBack(1, Fill) /\ NoReturn

FillEmplaceFront == size(deq[1]) < MaxSize /\ CallEmplaceFront(1, Fill) /\ NoReturn

FillResize == \E n \in 0..MaxSize : CallResize(1, n, Fill) /\ NoReturn

FillInsert ==
    \E i \in 0..size(deq[1]) :
        size(deq[1]) < MaxSize /\ CallInsert(1, i, Fill) /\ NoReturn

FillErase == \E i \in 0..(size(deq[1]) - 1) : CallErase(1, i) /\ NoReturn

NextCursor ==
    \/ FillPushBack \/ FillPushFront \/ FillEmplaceBack \/ FillEmplaceFront
    \/ PopBack \/ PopFront \/ FillResize \/ FillInsert \/ FillErase

SpecCursor == Init /\ [][NextCursor]_vars

\* ---- SpecClear: SpecEdit with clear()

CallClear(k) ==
    /\ ~deq[k].ub
    /\ deq' = [deq EXCEPT ![k] = clear(deq[k])]
    /\ abs' = [abs EXCEPT ![k] = <<>>]
    /\ thrown' = FALSE

Clear == deq[1].allocs < MaxMaps /\ CallClear(1) /\ NoReturn

NextClear == NextEdit \/ Clear

SpecClear == Init /\ [][NextClear]_vars

\* ---- SpecAssign: SpecClear with assign(count, value)

CallAssign(k, n, v) ==
    /\ ~deq[k].ub
    /\ FitsMap(assign(deq[k], n, v))
    /\ deq' = [deq EXCEPT ![k] = assign(deq[k], n, v)]
    /\ abs' = [abs EXCEPT ![k] = [j \in 1..n |-> v]]
    /\ thrown' = FALSE

Assign ==
    \E n \in 0..MaxSize, v \in Values :
        deq[1].allocs < MaxMaps /\ CallAssign(1, n, v) /\ NoReturn

NextAssign == NextClear \/ Assign

SpecAssign == Init /\ [][NextAssign]_vars

\* ---- SpecEmplace: push_back and pop_front, which walk the elements up
\* the map, and positional emplace, which records the iterator it returns

\* emplace(begin() + i, v) on object k
EmplaceAt(k, i, v) == emplace(deq[k], Iterator_add(begin(deq[k]), i), v)

CallEmplace(k, i, v) ==
    /\ ~deq[k].ub
    /\ FitsMap(EmplaceAt(k, i, v).deque)
    /\ deq' = [deq EXCEPT ![k] = EmplaceAt(k, i, v).deque]
    /\ abs' = [abs EXCEPT ![k] = Inserted(abs[k], i, v)]
    /\ thrown' = FALSE

Emplace ==
    \E i \in 0..size(deq[1]), v \in Values :
        /\ size(deq[1]) < MaxSize
        /\ CallEmplace(1, i, v)
        /\ Returns("emplace", EmplaceAt(1, i, v).result)

NextEmplace == NextFifo \/ Emplace

SpecEmplace == Init /\ [][NextEmplace]_vars

\* ---- SpecHeap: one object under push_back, push_front, the pops, resize
\* and clear(), all elements of one value

NextHeap ==
    \/ FillPushBack \/ FillPushFront \/ PopBack \/ PopFront
    \/ FillResize \/ Clear

SpecHeap == Init /\ [][NextHeap]_vars

\* ---- SpecIter: an iterator moved by its arithmetic operators and compared
\* with other iterators

\* the identities of the first and of the second map array of object 1:
\* an iterator taken before and one taken after a growth of the map
IterMaps == {Deque_default(1).map_ptr, fresh_map(Deque_default(1))}

IterBlocks == 0..MaxIterBlock

Iterators ==
    {Iterator(m, b, o) : m \in IterMaps, b \in IterBlocks, o \in 0..(BLOCK_SIZE - 1)}

Steps == {k * BLOCK_SIZE + r : k \in (-MaxJump)..MaxJump, r \in (-MaxStep)..MaxStep}

InitIter ==
    /\ deq = [k \in Ids |-> Deque_default(k)]
    /\ abs = [k \in Ids |-> <<>>]
    /\ thrown = FALSE
    /\ budget = 0
    /\ iter \in Iterators
    /\ ret = <<>>

\* the program replaces its iterator by next
MoveIterator(next) ==
    /\ iter.block \in IterBlocks
    /\ iter' = next
    /\ ret' = <<>>
    /\ UNCHANGED <<deq, abs, thrown, budget>>

CallIteratorAdd(n) == MoveIterator(Iterator_add(iter, n))

CallIteratorSub(n) == MoveIterator(Iterator_sub(iter, n))

CallConstIteratorAdd(n) == MoveIterator(Const_Iterator_add(iter, n))

CallConstIteratorSub(n) == MoveIterator(Const_Iterator_sub(iter, n))

IteratorAdd == \E n \in Steps : CallIteratorAdd(n)

IteratorSub == \E n \in Steps : CallIteratorSub(n)

ConstIteratorAdd == \E n \in Steps : CallConstIteratorAdd(n)

ConstIteratorSub == \E n \in Steps : CallConstIteratorSub(n)

IteratorInc == MoveIterator(Iterator_inc(iter))

IteratorDec == MoveIterator(Iterator_dec(iter))

\* the iterators iter is compared with: in any block, at the first, the
\* last and its own offset, over the same and over the other map
Others ==
    {Iterator(m, b, o) : m \in IterMaps, b \in IterBlocks,
                         o \in {0, iter.offset, BLOCK_SIZE - 1}}

IteratorCompare ==
    \E other \in Others :
        /\ iter.block \in IterBlocks
        /\ ret' = << [call |-> "compare", other |-> other,
                      eq |-> Iterator_eq(iter, other), ne |-> Iterator_ne(iter, other),
                      lt |-> Iterator_lt(iter, other), gt |-> Iterator_gt(iter, other),
                      le |-> Iterator_le(iter, other), ge |-> Iterator_ge(iter, other)] >>
        /\ UNCHANGED <<deq, abs, thrown, budget, iter>>

ConstIteratorCompare ==
    \E other \in Others :
        /\ iter.block \in IterBlocks
        /\ ret' = << [call |-> "compare", other |-> other,
                      eq |-> Const_Iterator_eq(iter, other), ne |-> Const_Iterator_ne(iter, other),
                      lt |-> Const_Iterator_lt(iter, other), gt |-> Const_Iterator_gt(iter, other),
                      le |-> Const_Iterator_le(iter, other), ge |-> Const_Iterator_ge(iter, other)] >>
        /\ UNCHANGED <<deq, abs, thrown, budget, iter>>

NextIter ==
    \/ IteratorAdd \/ IteratorSub \/ ConstIteratorAdd \/ ConstIteratorSub
    \/ IteratorInc \/ IteratorDec
    \/ IteratorCompare \/ ConstIteratorCompare

SpecIter == InitIter /\ [][NextIter]_vars

\* ======================================================================
\* Properties
\* ======================================================================

\* the object the one-object specifications drive, and its abstract list
D == deq[1]
L == abs[1]

\* it advanced n times with operator++
RECURSIVE Advance(_, _)
Advance(it, n) == IF n = 0 THEN it ELSE Advance(Iterator_inc(it), n - 1)

\* C1: in every state reachable by push_back, push_front, pop_back and
\* pop_front, operator[](i) for every 0 <= i < size() returns the i-th
\* element of the abstract front-to-back list.
C1_SubscriptMatchesList ==
    /\ ~D.ub
    /\ \A i \in 0..(size(D) - 1) : i < Len(L) /\ subscript(D, i) = L[i + 1]

\* C1's case: after the map has grown, a full deque whose elements lie in
\* two blocks, the first of them not at offset 0
C1_Witness ==
    /\ D.map_size > MIN_MAP_SIZE
    /\ size(D) = MaxSize
    /\ D.start_block < D.finish_block
    /\ D.start_offset > 0
    /\ D.finish_offset > 0

\* C2: with push_back and pop_front only, front() before each pop_front is
\* the oldest value pushed and not yet popped: L holds the values pushed
\* and not yet popped, oldest first, so the values come out in push order.
C2_Fifo == ~D.ub /\ (~empty(D) => L # <<>> /\ front(D) = Head(L))

\* C2's case: the start cursor has crossed a block boundary, the block
\* behind it is freed, and elements are queued
C2_Witness ==
    /\ D.start_block > Deque_default(1).start_block
    /\ ~HasBlock(D, D.start_block - 1)
    /\ size(D) = MaxSize

\* C3: with push_front and pop_back only, back() before each pop_back is
\* the oldest value pushed and not yet popped (the last of L, to whose
\* front push_front adds).
C3_FrontBackFifo == ~D.ub /\ (~empty(D) => L # <<>> /\ back(D) = L[Len(L)])

\* C3's case: the finish cursor has stepped back across a block boundary
\* (only pop_back with finish_offset = 0 lowers finish_block)
C3_Witness ==
    /\ D.finish_block < Deque_default(1).finish_block
    /\ D.finish_offset = 0
    /\ size(D) > 0

\* C5: size() is the number of successful insertions minus the number of
\* successful removals, never negative, and empty() holds exactly when
\* that number is 0.
C5_SizeIsNetCount ==
    /\ size(D) = Len(L)
    /\ size(D) >= 0
    /\ empty(D) <=> (Len(L) = 0)

\* C5's case: a failed pop on a deque that has been filled and emptied
C5_Witness ==
    /\ thrown
    /\ size(D) = 0
    /\ D.start_block # Deque_default(1).start_block

\* C4: from begin(), operator++ reaches an iterator equal to end() after
\* exactly size() increments, and the size() dereferences on the way give
\* the elements in logical order.
C4_RangeLoopVisitsAll ==
    /\ Iterator_eq(Advance(begin(D), size(D)), end(D))
    /\ \A k \in 0..(size(D) - 1) :
          /\ Iterator_ne(Advance(begin(D), k), end(D))
          /\ k < Len(L)
          /\ Iterator_deref(D, Advance(begin(D), k)) = L[k + 1]

\* C10: pop_back() and pop_front() throw exactly when the deque is empty,
\* at(i) throws exactly when i >= size(), and a call that throws leaves
\* the whole object as it was.
C10_OutOfRange ==
    [][ /\ CallPopBack(1) => (thrown' <=> Len(L) = 0)
        /\ CallPopFront(1) => (thrown' <=> Len(L) = 0)
        /\ \A i \in 0..(MaxSize + 1) : CallAt(1, i) => (thrown' <=> i >= Len(L))
        /\ thrown' => (deq' = deq /\ abs' = abs) ]_vars

\* C10's case: a call has thrown on a deque that holds elements (at), and
\* one has thrown on a deque emptied after its cursors moved (a pop or at)
C10_Witness == thrown /\ size(D) > 0 /\ D.map_size > MIN_MAP_SIZE

\* the elements of q front to back, as operator[] returns them
Contents(q) == [i \in 1..size(q) |-> subscript(q, i - 1)]

\* C6: a push_back or push_front that triggers reallocate_map keeps every
\* element the deque held, with its value and in the same order, and puts
\* the new element at the respective end.
C6_GrowthKeepsElements ==
    [][ /\ (abs'[1] # <<>> /\ GrowsBack(D) /\ CallPushBack(1, abs'[1][Len(abs'[1])]))
            => /\ ~deq'[1].ub
               /\ Contents(deq'[1]) = Append(Contents(D), abs'[1][Len(abs'[1])])
        /\ (abs'[1] # <<>> /\ GrowsFront(D) /\ CallPushFront(1, abs'[1][1]))
            => /\ ~deq'[1].ub
               /\ Contents(deq'[1]) = <<abs'[1][1]>> \o Contents(D) ]_vars

\* C6's case: the map has grown under a deque whose elements fill several
\* blocks
C6_Witness ==
    /\ D.map_size > MIN_MAP_SIZE
    /\ D.finish_block - D.start_block >= MIN_MAP_SIZE \div 2
    /\ size(D) > (MIN_MAP_SIZE \div 2) * BLOCK_SIZE
    /\ Contents(D) = L

\* the elements of q are those of the list l, in order
Holds(q, l) == ~q.ub /\ size(q) = Len(l) /\ Contents(q) = l

\* a call of one of the four end operations on object k
EndCall(k) ==
    \/ \E v \in Values : CallPushBack(k, v) \/ CallPushFront(k, v)
    \/ CallPopBack(k)
    \/ CallPopFront(k)

\* C7: a copy (constructed or assigned) has the size and the elements of
\* its source, and a later mutation of either leaves the other unchanged.
C7_CopyIsEqualAndIndependent ==
    [][ \A src \in Ids, dst \in Ids :
          /\ (src # dst /\ (CallCopyConstruct(src, dst) \/ CallCopyAssign(src, dst)))
                => /\ Holds(deq'[dst], Contents(deq[src]))
                   /\ Holds(deq'[src], Contents(deq[src]))
          /\ (src # dst /\ EndCall(src))
                => /\ size(deq'[dst]) = size(deq[dst])
                   /\ Contents(deq'[dst]) = Contents(deq[dst]) ]_vars

\* C8: a move (construction or assignment) leaves the source empty, the
\* destination with the source's former elements and size, and a following
\* push_back(v) on the source defined, with size() == 1 and
\* front() == back() == v.
C8_MoveLeavesSourceReusable ==
    [][ \A src \in Ids, dst \in Ids :
          (src # dst /\ ( CallMoveAssign(src, dst)
                          \/ \E g \in Garbage : CallMoveConstruct(src, dst, g) ))
             => /\ empty(deq'[src]) /\ size(deq'[src]) = 0
                /\ Holds(deq'[dst], Contents(deq[src]))
                /\ \A v \in Values :
                      LET s == push_back(deq'[src], v)
                      IN  ~s.ub /\ size(s) = 1 /\ front(s) = v /\ back(s) = v ]_vars

\* C9: a == b is true exactly when the sizes are equal and a[i] == b[i]
\* for every i < size(), and a != b is its negation.
C9_EqualityIffSameElements ==
    (~deq[1].ub /\ ~deq[2].ub) =>
        LET same == /\ size(deq[1]) = size(deq[2])
                    /\ \A i \in 0..(size(deq[1]) - 1) :
                          subscript(deq[1], i) = subscript(deq[2], i)
        IN  /\ deque_eq(deq[1], deq[2]) = (IF same THEN "true" ELSE "false")
            /\ deque_ne(deq[1], deq[2]) = (IF same THEN "false" ELSE "true")

\* C11: in every reachable state of every object, the source and the
\* destination of a copy or a move included, capacity() >= size() and
\* capacity() is a multiple of 64.
C11_CapacityBoundsSize ==
    \A k \in Ids :
        ~deq[k].ub => /\ capacity(deq[k]) >= size(deq[k])
                      /\ capacity(deq[k]) % BLOCK_SIZE = 0

\* it moved back n times with operator--
RECURSIVE Retreat(_, _)
Retreat(i, n) == IF n = 0 THEN i ELSE Retreat(Iterator_dec(i), n - 1)

\* the iterator n positions from i: block floor((b * 64 + o + n) / 64),
\* offset (b * 64 + o + n) mod 64, the block number taken as a size_type
Shifted(i, n) ==
    LET flat == i.block * BLOCK_SIZE + i.offset + n
    IN  Iterator(i.map_ptr, to_size(flat \div BLOCK_SIZE), flat % BLOCK_SIZE)

\* C15: it + n and it - (-n) are the iterator at block
\* floor((b * 64 + o + n) / 64) and offset (b * 64 + o + n) mod 64; for
\* n < 0 that is the iterator operator-- reaches in |n| steps.
C15_FloorArithmetic ==
    [][ \A n \in Steps :
          /\ (CallIteratorAdd(n) \/ CallConstIteratorAdd(n)) => iter' = Shifted(iter, n)
          /\ (CallIteratorSub(n) \/ CallConstIteratorSub(n)) => iter' = Shifted(iter, -n)
          /\ (n < 0 /\ CallIteratorAdd(n)) => iter' = Retreat(iter, -n) ]_vars

\* C17: every comparison of two iterators over different maps returns:
\* == false, != true, and none of <, >, <=, >= true.
C17_CrossMapComparisons ==
    (ret # <<>> /\ ret[1].other.map_ptr # iter.map_ptr) =>
        /\ ~ret[1].eq /\ ret[1].ne
        /\ ~ret[1].lt /\ ~ret[1].gt /\ ~ret[1].le /\ ~ret[1].ge

\* the iterator at logical index i of q
IteratorAt(q, i) ==
    Iterator(q.map_ptr, q.start_block + ((q.start_offset + i) \div BLOCK_SIZE),
             (q.start_offset + i) % BLOCK_SIZE)

\* the step is the call insert(begin() + i, v) on object 1
InsertStep(i, v) ==
    /\ ret' # <<>> /\ ret'[1].call = "insert"
    /\ i <= size(D)
    /\ abs'[1] = Inserted(L, i, v)
    /\ ret'[1].result = InsertAt(1, i, v).result
    /\ CallInsert(1, i, v)

\* the step is the call erase(begin() + i) on object 1
EraseStep(i) ==
    /\ ret' # <<>> /\ ret'[1].call = "erase"
    /\ i < size(D)
    /\ abs'[1] = Erased(L, i)
    /\ ret'[1].result = EraseAt(1, i).result
    /\ CallErase(1, i)

\* C12: insert(begin() + i, v) on a deque holding e leaves e[0..i), v,
\* e[i..n) with size() == n + 1, and returns the iterator at logical
\* index i, which dereferences to v.
C12_InsertPlacesValue ==
    [][ \A i \in 0..MaxSize, v \in Values :
          InsertStep(i, v) =>
              /\ Holds(deq'[1], Inserted(Contents(D), i, v))
              /\ size(deq'[1]) = size(D) + 1
              /\ ret'[1].result = IteratorAt(deq'[1], i)
              /\ Iterator_deref(deq'[1], ret'[1].result) = v ]_vars

\* C12's case: insert has just put a value in the middle of a deque whose
\* appended slot opened a new block, after the map has grown
C12_Witness ==
    /\ ret # <<>> /\ ret[1].call = "insert"
    /\ ret[1].result = IteratorAt(D, 1)
    /\ size(D) = MaxSize
    /\ D.finish_offset = 1
    /\ D.start_block < D.finish_block
    /\ D.map_size > MIN_MAP_SIZE

\* C13: erase(begin() + i) on a deque holding e, i < n, leaves e[0..i),
\* e[i+1..n) with size() == n - 1 and returns the iterator at logical
\* index i, which is end() when i was the last index.
C13_EraseRemovesElement ==
    [][ \A i \in 0..MaxSize :
          EraseStep(i) =>
              /\ Holds(deq'[1], Erased(Contents(D), i))
              /\ size(deq'[1]) = size(D) - 1
              /\ ret'[1].result = IteratorAt(deq'[1], i)
              /\ (i = size(D) - 1) => Iterator_eq(ret'[1].result, end(deq'[1])) ]_vars

\* C13's case: erase has just removed the last element of a deque that
\* spans two blocks and returned end()
C13_Witness ==
    /\ ret # <<>> /\ ret[1].call = "erase"
    /\ Iterator_eq(ret[1].result, end(D))
    /\ size(D) = MaxSize - 1
    /\ D.start_block < D.finish_block

\* C14: clear() leaves size() == 0, no map slot owning a block (clear
\* allocates none, so an owned block would be one from before the call),
\* and both cursors at (map_size / 2, 0), a slot of the map in place.
C14_ClearResets ==
    [][ CallClear(1) =>
          /\ ~deq'[1].ub
          /\ size(deq'[1]) = 0
          /\ \A b \in 0..(deq'[1].map_size - 1) : ~HasBlock(deq'[1], b)
          /\ deq'[1].start_block = deq'[1].map_size \div 2
          /\ deq'[1].finish_block = deq'[1].map_size \div 2
          /\ deq'[1].start_offset = 0 /\ deq'[1].finish_offset = 0
          /\ InMap(deq'[1], deq'[1].start_block) ]_vars

C18_StartNotAfterFinish ==
    /\ \/ D.start_block < D.finish_block
       \/ D.start_block = D.finish_block /\ D.start_offset <= D.finish_offset
    /\ (D.start_block = D.finish_block /\ D.start_offset = D.finish_offset)
          <=> (size(D) = 0)

\* C19: every map slot in [start_block, finish_block] owns a block, and
\* the slots at start_block and finish_block are slots of the map that
\* own one.
C19_RangeBlocksAllocated ==
    ~D.ub =>
        /\ \A b \in D.start_block..D.finish_block : HasBlock(D, b)
        /\ HasBlock(D, D.start_block)
        /\ HasBlock(D, D.finish_block)

\* C20: 0 <= start_offset < 64, 0 <= finish_offset <= 64 and
\* size == (finish_block - start_block) * 64 + finish_offset - start_offset.
C20_SizeIsCursorDistance ==
    /\ ~D.ub
    /\ 0 <= D.start_offset /\ D.start_offset < BLOCK_SIZE
    /\ 0 <= D.finish_offset /\ D.finish_offset <= BLOCK_SIZE
    /\ size(D) = (D.finish_block - D.start_block) * BLOCK_SIZE
                 + D.finish_offset - D.start_offset

\* C20's case: after the map has grown, a full deque across a block
\* boundary, its finish cursor at the un-normalized offset 64
C20_Witness ==
    /\ D.map_size > MIN_MAP_SIZE
    /\ size(D) = MaxSize
    /\ D.finish_offset = BLOCK_SIZE
    /\ D.start_offset = BLOCK_SIZE - MaxSize

C22_ConstDerefMatchesIterator ==
    \A i \in 0..(size(D) - 1) :
        LET p == IteratorAt(D, i)
            c == Const_Iterator(p.map_ptr, p.block, p.offset)
            stored == read_at(D, p.block, p.offset)
        IN  /\ stored = L[i + 1]
            /\ Iterator_deref(D, p) = stored
            /\ Const_Iterator_deref(D, c) = stored
            /\ Const_Iterator_arrow(D, c) = stored
            /\ Iterator_arrow(D, p) = stored

\* q is a deque a push of v has left with that one element
HoldsOnly(q, v) ==
    /\ ~q.ub
    /\ size(q) = 1
    /\ front(q) = v
    /\ back(q) = v

\* C23: after clear() on a non-empty deque, push_back(v) and push_front(v)
\* write into an allocated block of the map and leave size() == 1 and
\* front() == back() == v; assign(n, v) on a non-empty deque leaves
\* exactly n elements, all equal to v.
C23_PushAfterClear ==
    [][ /\ (~empty(D) /\ CallClear(1)) =>
              \A v \in Values :
                  /\ HoldsOnly(push_back(deq'[1], v), v)
                  /\ HoldsOnly(push_front(deq'[1], v), v)
        /\ \A n \in 0..MaxSize, v \in Values :
              (~empty(D) /\ CallAssign(1, n, v)) =>
                  Holds(deq'[1], [j \in 1..n |-> v]) ]_vars

\* the step is the call emplace(begin() + i, v) on object 1
EmplaceStep(i, v) ==
    /\ ret' # <<>> /\ ret'[1].call = "emplace"
    /\ i <= size(D)
    /\ abs'[1] = Inserted(L, i, v)
    /\ ret'[1].result = EmplaceAt(1, i, v).result
    /\ CallEmplace(1, i, v)

\* C24: emplace(begin() + i, v) on a deque holding e, 0 <= i <= n, touches
\* only allocated blocks, leaves e[0..i), v, e[i..n) with size() == n + 1
\* and size() equal to the cursor distance, the finish cursor one position
\* on, and returns an iterator that dereferences to v.
C24_EmplacePlacesValue ==
    [][ \A i \in 0..MaxSize, v \in Values :
          EmplaceStep(i, v) =>
              /\ ~deq'[1].ub
              /\ Holds(deq'[1], Inserted(Contents(D), i, v))
              /\ size(deq'[1]) = size(D) + 1
              /\ size(deq'[1]) = (deq'[1].finish_block - deq'[1].start_block) * BLOCK_SIZE
                                    + deq'[1].finish_offset - deq'[1].start_offset
              /\ Iterator_deref(deq'[1], ret'[1].result) = v ]_vars

\* the blocks the map of q owns, and the map arrays q has allocated and
\* not deleted
OwnedBlocks(q) == Cardinality({i \in 0..(q.map_size - 1) : q.map[i] # NullBlock})

LiveMaps(q) == q.allocs - q.deleted

\* C25: under push_back, push_front, the pops, resize and clear() the map
\* arrays allocated and not deleted are the one map the deque holds, a
\* call that frees no block leaves no fewer blocks in the map than there
\* were, and a reallocate_map carries every block of the old map over to
\* the new one.
C25_NothingLeaks ==
    [][ /\ ~deq'[1].ub =>
              LiveMaps(deq'[1]) = IF deq'[1].map_ptr # NullMap THEN 1 ELSE 0
        /\ (\/ CallPushBack(1, Fill) \/ CallPushFront(1, Fill) \/ CallPopBack(1)
            \/ \E n \in 0..MaxSize : CallResize(1, n, Fill)) =>
              (~deq'[1].ub => OwnedBlocks(deq'[1]) >= OwnedBlocks(D))
        /\ (GrowsBack(D) /\ CallPushBack(1, Fill)) =>
              OwnedBlocks(reallocate_map(D, FALSE)) = OwnedBlocks(D)
        /\ (GrowsFront(D) /\ CallPushFront(1, Fill)) =>
              OwnedBlocks(reallocate_map(D, TRUE)) = OwnedBlocks(D) ]_vars

====
